---- MODULE Spec2Model ----
(***************************************************************************)
(* Record of the Day: the thermodynamic selector                           *)
(* (discogs/utils/thermodynamic_recommendation.py) and the views that      *)
(* persist, refresh and vote on the daily selection (discogs/views.py)     *)
(* over the RecordOfTheDay table (discogs/models.py).                      *)
(*                                                                         *)
(* Fixed-point units.  Listing.score is a Decimal with two places and is   *)
(* kept in hundredths.  Entropy measures, temperatures, probabilities and  *)
(* vote averages are kept in thousandths.  The three free-energy terms are *)
(* kept in millionths, so that temperature * entropy is exact.  Votes are  *)
(* kept in tenths (the default of a missing vote is 0.5).                  *)
(***************************************************************************)
EXTENDS Integers, Sequences, FiniteSets, TLC

VARIABLES catalog, today, rotd, nextId, req, last, lastRead, call, inventory_file, scan, client

vars == <<catalog, today, rotd, nextId, req, last, lastRead, call, inventory_file, scan, client>>

(***************************************************************************)
(* Bounds of the model.                                                    *)
(***************************************************************************)
MaxId == 2
MaxVotes == 1
\* the largest finite magnitude of a feedback quantity, thousandths
FloatMax == 1000000
\* the discogs ids of the records a seller lists are 1..MaxRecord
MaxRecord == 3
\* the listings on one page of a seller's inventory
PerPage == 2
\* the calls made on one client
MaxCalls == 3

(***************************************************************************)
(* Program constants.                                                      *)
(***************************************************************************)
MinClusterListings == 5
PcaThreshold == 10
PcaComponents == 10
NClusters == 5
EligibleScore == 50
MaxCandidates == 50
EntropyLo == 100
EntropyHi == 900
EntropyDefault == 500
TempLo == 100
TempHi == 1000
TempDefault == 500
BaseTemperature == 500
UncertaintyDefault == 500
PastRecordsWindow == 10
SimilarRecordsWindow == 5
CreateTempDefault == 500
DefaultVote == 5
StoredCap == 50
MaxPages == 100
RaiseAbove == 45
LowerBelow == 40
SleepStep == 1

None == 0
NoError == "none"

(***************************************************************************)
(* Arithmetic helpers.                                                     *)
(***************************************************************************)
Min(a, b) == IF a < b THEN a ELSE b
Max(a, b) == IF a > b THEN a ELSE b

RECURSIVE SumSeq(_)
SumSeq(s) == IF s = <<>> THEN 0 ELSE Head(s) + SumSeq(Tail(s))

\* the largest r in lo..hi with r * r <= n
RECURSIVE SqrtBetween(_, _, _)
SqrtBetween(n, lo, hi) ==
    IF lo >= hi THEN lo
    ELSE LET mid == (lo + hi + 1) \div 2
         IN  IF mid * mid <= n THEN SqrtBetween(n, mid, hi) ELSE SqrtBetween(n, lo, mid - 1)

\* floor of the square root (np.std is the square root of np.var)
ISqrt(n) == SqrtBetween(n, 0, 46340)

\* exp(-d/1000) in millionths, d >= 0 in thousandths (np.exp)
RECURSIVE ExpNeg(_)
ExpNeg(d) ==
    IF d >= 1000
    THEN ((ExpNeg(d - 1000) \div 10) * 3679) \div 1000
    ELSE LET c3 == (d * d * d) \div 6000
         IN  1000000 - 1000 * d + (d * d) \div 2 - c3 + (c3 * d) \div 4000

(***************************************************************************)
(* Python floats.  A finite float is an integer in the unit of its         *)
(* quantity; Inf, NegInf and NaN are the three values below.  The range of *)
(* the finite values of the feedback quantities (votes and their averages, *)
(* in thousandths) is scaled down to FloatMax: a result at or beyond it is *)
(* an infinity, as a float64 result beyond 1.8e308 is.                     *)
(***************************************************************************)
Inf == 2^30 + (2^30 - 2)
NegInf == -Inf
NaN == Inf + 1

Finite(x) == x \notin {Inf, NegInf, NaN}

\* np.clip: NaN stays NaN; Inf and NegInf are above and below every bound
Clip(x, lo, hi) == IF x = NaN THEN NaN ELSE IF x < lo THEN lo ELSE IF x > hi THEN hi ELSE x

Abs(x) == IF x < 0 THEN -x ELSE x

\* the float a finite result rounds to
Overflow(x) == IF x >= FloatMax THEN Inf ELSE IF x <= -FloatMax THEN NegInf ELSE x

\* a + b
FAdd(a, b) ==
    IF a = NaN \/ b = NaN \/ (a = Inf /\ b = NegInf) \/ (a = NegInf /\ b = Inf) THEN NaN
    ELSE IF a = Inf \/ b = Inf THEN Inf
    ELSE IF a = NegInf \/ b = NegInf THEN NegInf
    ELSE Overflow(a + b)

\* -a
FNeg(a) == IF a = NaN THEN NaN ELSE -a

\* sum(s): the built-in adds from the left, starting at 0
RECURSIVE FSum(_)
FSum(s) == IF s = <<>> THEN 0 ELSE FAdd(FSum(SubSeq(s, 1, Len(s) - 1)), s[Len(s)])

\* a / n for a count n > 0
FDiv(a, n) == IF Finite(a) THEN a \div n ELSE a

\* a * num / den for positive integers num and den
FScale(a, num, den) == IF Finite(a) THEN Overflow((a * num) \div den) ELSE a

\* a * b of two quantities in thousandths, in thousandths
FMul(a, b) ==
    IF a = NaN \/ b = NaN THEN NaN
    ELSE IF ~Finite(a) \/ ~Finite(b)
    THEN IF a = 0 \/ b = 0 THEN NaN
         ELSE IF (a > 0) = (b > 0) THEN Inf ELSE NegInf
    ELSE IF a = 0 \/ b = 0 THEN 0
    ELSE IF Abs(a) > (FloatMax * 1000 - 1) \div Abs(b)
    THEN IF (a > 0) = (b > 0) THEN Inf ELSE NegInf
    ELSE (a * b) \div 1000

\* a * b of two quantities in thousandths, in millionths
FMulExact(a, b) ==
    IF a = NaN \/ b = NaN THEN NaN
    ELSE IF ~Finite(a) \/ ~Finite(b)
    THEN IF a = 0 \/ b = 0 THEN NaN
         ELSE IF (a > 0) = (b > 0) THEN Inf ELSE NegInf
    ELSE a * b

(***************************************************************************)
(* The catalog.  A listing carries the attributes the selector reads:      *)
(* score (hundredths), evaluated, the genres of its record, whether its    *)
(* record was added in the last 7 days, and dist: its nearest-centroid     *)
(* distance divided by the largest centroid-to-centroid distance           *)
(* (thousandths), which the fitted transforms and KMeans(random_state=42)  *)
(* determine from the listing and the window.  featureDim is the width of  *)
(* the combined feature vector (6 numeric columns plus the TF-IDF          *)
(* vocabulary); centroidSpread is the largest centroid-to-centroid         *)
(* distance.  A listing's id is its position in the sequence.              *)
(***************************************************************************)
L(s, e, g, r, d) == [score |-> s, evaluated |-> e, genres |-> g, recent |-> r, dist |-> d]

CatFit ==
    [listings |-> << L(90, TRUE, {"rock"}, TRUE, 0), L(60, FALSE, {"jazz"}, TRUE, 2000),
                     L(40, FALSE, {"rock"}, TRUE, 400), L(0, FALSE, {}, TRUE, 400),
                     L(0, TRUE, {"folk"}, TRUE, 50) >>,
     featureDim |-> 8, centroidSpread |-> 3]

CatSmall ==
    [listings |-> << L(70, TRUE, {"rock"}, FALSE, 400), L(95, FALSE, {"rock", "pop"}, FALSE, 400),
                     L(30, TRUE, {"jazz"}, FALSE, 400) >>,
     featureDim |-> 20, centroidSpread |-> 3]

CatLow ==
    [listings |-> << L(30, TRUE, {"rock"}, TRUE, 400), L(45, FALSE, {"jazz"}, TRUE, 400) >>,
     featureDim |-> 8, centroidSpread |-> 3]

CatZero ==
    [listings |-> << L(0, FALSE, {"rock"}, TRUE, 400) >>,
     featureDim |-> 8, centroidSpread |-> 3]

Catalogs == {CatFit, CatSmall, CatLow, CatZero}

\* the ten listings of ThermodynamicDebuggingTest.setUp: all evaluated, their
\* records just added; more than 10 feature columns (6 numeric ones and the words
\* of ten artists, titles and genre lists)
CatTen ==
    [listings |-> << L(90, TRUE, {"Rock", "Pop"}, TRUE, 50),
                     L(70, TRUE, {"Jazz", "Experimental"}, TRUE, 800),
                     L(30, TRUE, {"Rock", "Alternative"}, TRUE, 400),
                     L(95, TRUE, {"Jazz", "Rare"}, TRUE, 2000),
                     L(80, TRUE, {"Indie", "Alternative"}, TRUE, 300),
                     L(75, TRUE, {"Electronic", "Ambient"}, TRUE, 600),
                     L(85, TRUE, {"Classical", "Orchestral"}, TRUE, 0),
                     L(60, TRUE, {"Punk", "Hardcore"}, TRUE, 500),
                     L(65, TRUE, {"Folk", "Singer-Songwriter"}, TRUE, 200),
                     L(55, TRUE, {"Hip Hop", "Rap"}, TRUE, 700) >>,
     featureDim |-> 40, centroidSpread |-> 3]

ListingIds(cat) == DOMAIN cat.listings

\* the id of a highest-scored listing among ids (lowest id on a tie)
BestOf(cat, ids) ==
    CHOOSE i \in ids :
        \A j \in ids : \/ cat.listings[j].score < cat.listings[i].score
                       \/ (cat.listings[j].score = cat.listings[i].score /\ i <= j)

\* .order_by('-score') as a list
RECURSIVE OrderByScoreDesc(_, _)
OrderByScoreDesc(cat, ids) ==
    IF ids = {} THEN <<>>
    ELSE LET b == BestOf(cat, ids) IN <<b>> \o OrderByScoreDesc(cat, ids \ {b})

\* a variant of [:n] that does not truncate
TakeAll(s, n) == s

\* [:n]
Take(s, n) == SubSeq(s, 1, Min(Len(s), n))

\* a variant whose candidates are all the positively scored listings
PositiveListings(cat, max_candidates) ==
    Take(OrderByScoreDesc(cat, {i \in ListingIds(cat) : cat.listings[i].score > 0}),
         max_candidates)

\* a variant whose candidates are all the listings
AllListings(cat, max_candidates) ==
    Take(OrderByScoreDesc(cat, ListingIds(cat)), max_candidates)

\* Listing.objects.filter(score__gt=0.5).order_by('-score')[:max_candidates]
EligibleListings(cat, max_candidates) ==
    Take(OrderByScoreDesc(cat, {i \in ListingIds(cat) : cat.listings[i].score > EligibleScore}),
         max_candidates)

RECURSIVE IdsAscending(_)
IdsAscending(ids) ==
    IF ids = {} THEN <<>>
    ELSE LET m == CHOOSE i \in ids : \A j \in ids : i <= j
         IN  <<m>> \o IdsAscending(ids \ {m})

\* Listing.objects.filter(record__added__gte=recent_cutoff).order_by('-record__added')[:100]
RecentListings(cat) ==
    Take(IdsAscending({i \in ListingIds(cat) : cat.listings[i].recent}), 100)

\* a variant that takes the first positively scored listing in id order
FirstPositive(cat) ==
    LET pos == {i \in ListingIds(cat) : cat.listings[i].score > 0}
    IN  IF pos = {} THEN None ELSE CHOOSE i \in pos : \A j \in pos : i <= j

\* Listing.objects.filter(score__gt=0).order_by('-score').first()
HighestScored(cat) ==
    LET pos == {i \in ListingIds(cat) : cat.listings[i].score > 0}
    IN  IF pos = {} THEN None ELSE BestOf(cat, pos)

(***************************************************************************)
(* The RecordOfTheDay table: a set of rows.  Meta.ordering is ['-date'].   *)
(***************************************************************************)
\* sum(r.<field> for r in rows): the rows come latest date first
RECURSIVE SumOver(_, _)
SumOver(rows, field) ==
    IF rows = {} THEN 0
    ELSE LET r == CHOOSE x \in rows : \A y \in rows : x.date <= y.date
         IN  FAdd(SumOver(rows \ {r}, field), r[field])

\* the first n rows of a queryset in '-date' order
FirstByDate(rows, n) ==
    {r \in rows : Cardinality({q \in rows : q.date > r.date}) < n}

\* Record.genres is a JSONField, which has no lookup named overlap: the filter
\* genres__overlap=value compares what the stored JSON holds under the key
\* 'overlap' with value.  The stored genres are lists, and a list has no keys.
JsonKeyIs(stored, key, value) == FALSE

\* RecordOfTheDay.objects.filter(listing__record__genres__overlap=genres)[:5]
SimilarRecords(cat, rows, genres) ==
    FirstByDate({r \in rows : JsonKeyIs(cat.listings[r.listing].genres, "overlap", genres)},
                SimilarRecordsWindow)

(***************************************************************************)
(* ThermodynamicRecordSelector.  The object's state is a record; None for  *)
(* recent_listings_cache, cluster_centroids and feature_cache is <<>> (a   *)
(* fitted window has at least 5 listings).  The centroids, and the fitted  *)
(* state of the vectorizer, the scaler and the PCA, are identified by the  *)
(* window they were fitted on (<<>>: not fitted).                          *)
(***************************************************************************)
NewSelector ==
    [recent_listings_cache |-> <<>>, cluster_centroids |-> <<>>,
     feature_cache |-> <<>>, is_fitted |-> FALSE,
     vectorizer |-> <<>>, scaler |-> <<>>, pca |-> <<>>]

\* a variant that records the window before it checks its length
UpdateCachingFirst(sel, cat, recent_listings, fault) ==
    LET cached == [sel EXCEPT !.recent_listings_cache = recent_listings]
    IN  IF Len(recent_listings) < MinClusterListings
        THEN [ret |-> FALSE, sel |-> cached, refit |-> FALSE]
        ELSE [ret |-> ~fault, sel |-> cached, refit |-> TRUE]

\* a variant without the cached window: every call with 5 listings or more refits
UpdateAlwaysRefits(sel, cat, recent_listings, fault) ==
    IF Len(recent_listings) < MinClusterListings
    THEN [ret |-> FALSE, sel |-> sel, refit |-> FALSE]
    ELSE [ret |-> ~fault,
          sel |-> [sel EXCEPT !.recent_listings_cache = recent_listings,
                              !.is_fitted = TRUE, !.vectorizer = recent_listings,
                              !.scaler = recent_listings],
          refit |-> TRUE]

\* _update_cluster_model; fault: an exception inside the KMeans fit.  refit tells
\* whether the call has fitted the transformers (it went past the cached window).
\* PCA(n_components=10).fit_transform raises on fewer than 10 rows.
update_cluster_model(sel, cat, recent_listings, fault) ==
    IF Len(recent_listings) < MinClusterListings
    THEN [ret |-> FALSE, sel |-> sel, refit |-> FALSE]
    ELSE IF sel.recent_listings_cache = recent_listings
    THEN [ret |-> TRUE, sel |-> sel, refit |-> FALSE]
    ELSE LET cached == [sel EXCEPT !.recent_listings_cache = recent_listings,
                                   !.is_fitted = TRUE,
                                   !.vectorizer = recent_listings,
                                   !.scaler = recent_listings]
             reduces == cat.featureDim > PcaThreshold
             reduced == IF reduces THEN [cached EXCEPT !.pca = recent_listings] ELSE cached
         IN  IF reduces /\ Len(recent_listings) < PcaComponents
             THEN [ret |-> FALSE, sel |-> cached, refit |-> TRUE]
             ELSE IF fault
             THEN [ret |-> FALSE, sel |-> reduced, refit |-> TRUE]
             ELSE [ret |-> TRUE,
                   sel |-> [reduced EXCEPT !.cluster_centroids = recent_listings,
                                           !.feature_cache = recent_listings],
                   refit |-> TRUE]

\* _calculate_entropy_measure, thousandths; draw: the np.random.uniform(0.3, 0.7) value
calculate_entropy_measure(sel, cat, rows, listing, draw, fault) ==
    IF fault THEN EntropyDefault
    ELSE IF sel.cluster_centroids = <<>> THEN draw
    ELSE LET raw == IF cat.centroidSpread > 0 THEN cat.listings[listing].dist
                    ELSE EntropyDefault
             clipped == Clip(raw, EntropyLo, EntropyHi)
             similar_records == SimilarRecords(cat, rows, cat.listings[listing].genres)
             avg_novelty == FDiv(SumOver(similar_records, "average_novelty"),
                                 Max(1, Cardinality(similar_records)))
         IN  FMul(clipped, FAdd(1000, FScale(avg_novelty, 300, 1000)))

\* std/mean of the scores, thousandths, capped at 1.0
UncertaintyFactor(scores) ==
    LET n == Len(scores)
        s1 == SumSeq(scores)
        s2 == SumSeq([i \in 1..n |-> scores[i] * scores[i]])
    IN  Min((ISqrt((n * s2 - s1 * s1) * 10000) * 10) \div s1, 1000)

\* the uncertainty_factor of _calculate_system_temperature, thousandths
uncertainty_factor(cat, eligible_listings) ==
    LET IsScored(i) == cat.listings[i].score > 0
        scored == SelectSeq(eligible_listings, IsScored)
        scores == [i \in 1..Len(scored) |-> cat.listings[scored[i]].score]
    IN  IF scores # <<>> THEN UncertaintyFactor(scores) ELSE UncertaintyDefault

\* the temperature before np.clip
RawTemperature(cat, rows, eligible_listings) ==
    LET total_listings == Len(eligible_listings)
        IsUnevaluated(i) == ~cat.listings[i].evaluated
        unevaluated_count == Len(SelectSeq(eligible_listings, IsUnevaluated))
        unevaluated_ratio == (unevaluated_count * 1000) \div Max(total_listings, 1)
        exploration_boost == (300 * unevaluated_ratio) \div 1000
                                 + (200 * uncertainty_factor(cat, eligible_listings)) \div 1000
        past_records == FirstByDate(rows, PastRecordsWindow)
        avg_desirability == SumOver(past_records, "average_desirability")
    IN  FMul(BaseTemperature + exploration_boost,
             FAdd(1000, FScale(avg_desirability, 200, 1000)))

\* _calculate_system_temperature, thousandths
calculate_system_temperature(cat, rows, eligible_listings, fault) ==
    IF fault THEN TempDefault
    ELSE Clip(RawTemperature(cat, rows, eligible_listings), TempLo, TempHi)

\* a variant whose utility is -score for a score of 0 too
FreeEnergyOfNonNegative(score, entropy_measure, temperature) ==
    LET utility == IF score >= 0 THEN -(score * 10000) ELSE -1000000
        entropy_term == FMulExact(temperature, entropy_measure)
    IN  <<utility - entropy_term, utility, entropy_term>>

\* _calculate_free_energy: <<free_energy, utility, entropy_term>>, millionths
calculate_free_energy(score, entropy_measure, temperature) ==
    LET utility == IF score > 0 THEN -(score * 10000) ELSE -1000000
        entropy_term == FMulExact(temperature, entropy_measure)
        free_energy == IF Finite(entropy_term) THEN utility - entropy_term
                       ELSE FNeg(entropy_term)
    IN  <<free_energy, utility, entropy_term>>

\* -F/T for one candidate, thousandths; the temperature is finite and not 0
Exponent(free_energy, temperature) ==
    IF free_energy = NaN THEN NaN
    ELSE IF ~Finite(free_energy)
    THEN IF (free_energy > 0) = (temperature > 0) THEN NegInf ELSE Inf
    ELSE IF temperature > 0 THEN (-free_energy) \div temperature
    ELSE free_energy \div (-temperature)

\* a variant whose weights are exp(F/T): the sign of the exponent is lost
ProbabilitiesOfRisingWeights(free_energies, temperature) ==
    LET n == Len(free_energies)
        xs == [i \in 1..n |-> Exponent(FNeg(free_energies[i]), temperature)]
        xmax == CHOOSE x \in {xs[i] : i \in 1..n} : \A j \in 1..n : xs[j] <= x
        ws == [i \in 1..n |-> IF xs[i] = NegInf THEN 0 ELSE ExpNeg(xmax - xs[i])]
    IN  [i \in 1..n |-> (ws[i] * 1000) \div SumSeq(ws)]

\* probabilities = boltzmann_weights / np.sum(boltzmann_weights), thousandths
Probabilities(free_energies, temperature) ==
    LET n == Len(free_energies)
        xs == [i \in 1..n |-> Exponent(free_energies[i], temperature)]
        xmax == CHOOSE x \in {xs[i] : i \in 1..n} : \A j \in 1..n : xs[j] <= x
        ws == [i \in 1..n |-> IF xs[i] = NegInf THEN 0 ELSE ExpNeg(xmax - xs[i])]
    IN  [i \in 1..n |-> (ws[i] * 1000) \div SumSeq(ws)]

\* float64: np.exp overflows to inf above 709 and underflows to 0 below -745
NonFiniteWeights(free_energies, temperature) ==
    LET n == Len(free_energies)
        xs == [i \in 1..n |-> Exponent(free_energies[i], temperature)]
    IN  \/ \E i \in 1..n : xs[i] > 709000
        \/ \A i \in 1..n : xs[i] < -745000

\* the except branch: np.random.choice(listing_ids), 1.0 / len(listing_ids)
UniformFallback(listing_ids, pick) ==
    IF listing_ids = <<>>
    THEN [raised |-> TRUE, selected_id |-> None, probability |-> 0, probabilities |-> <<>>]
    ELSE [raised |-> FALSE, selected_id |-> listing_ids[pick],
          probability |-> 1000 \div Len(listing_ids), probabilities |-> <<>>]

\* _boltzmann_sampling; pick: the index np.random.choice draws; fault: an
\* exception raised inside the try block.  probabilities in the result is the
\* array the try block has drawn from (<<>> when the except branch has answered).
boltzmann_sampling(free_energies, listing_ids, temperature, pick, fault) ==
    IF \/ fault
       \/ temperature = 0 \/ ~Finite(temperature)
       \/ listing_ids = <<>>
       \/ Len(free_energies) # Len(listing_ids)
       \/ NonFiniteWeights(free_energies, temperature)
    THEN UniformFallback(listing_ids, pick)
    ELSE [raised |-> FALSE, selected_id |-> listing_ids[pick],
          probability |-> Probabilities(free_energies, temperature)[pick],
          probabilities |-> Probabilities(free_energies, temperature)]

(***************************************************************************)
(* select_record_of_the_day.  A breakdown is a function from its keys to   *)
(* their values.  ch holds what the environment chooses during one call:   *)
(* fault (the stage that raises, or NoError), fallbackFault (the fallback  *)
(* query raises), draws (one uniform draw per candidate) and pick (the     *)
(* sampled index).  The result carries raised: an exception left the call. *)
(***************************************************************************)
Faults ==
    {NoError, "candidate_query", "recent_query", "refit", "temperature", "entropy",
     "sampling", "breakdown"}

UniformDraws == {300, 700}

EmptyBreakdown == [k \in {} |-> 0]

BreakdownKeys ==
    {"model_score", "entropy_measure", "system_temperature", "utility_term", "entropy_term",
     "free_energy", "selection_probability", "total_candidates", "cluster_count",
     "selection_method"}

\* a variant whose fallback query lets its exception out of the call
SelectFallbackRaising(sel, cat, error, fallbackFault) ==
    IF fallbackFault
    THEN [listing |-> None, breakdown |-> EmptyBreakdown, raised |-> TRUE, sel |-> sel]
    ELSE [listing |-> IF {i \in ListingIds(cat) : cat.listings[i].score > 0} = {} THEN None
                      ELSE BestOf(cat, {i \in ListingIds(cat) : cat.listings[i].score > 0}),
          breakdown |-> [error |-> error, selection_method |-> "fallback"],
          raised |-> FALSE, sel |-> sel]

\* the except branch of select_record_of_the_day
SelectFallback(sel, cat, error, fallbackFault) ==
    IF fallbackFault
    THEN [listing |-> None, breakdown |-> [error |-> error], raised |-> FALSE, sel |-> sel]
    ELSE [listing |-> HighestScored(cat),
          breakdown |-> [error |-> error, selection_method |-> "fallback"],
          raised |-> FALSE, sel |-> sel]

\* the window the novelty model is fitted on: the recent listings, or the candidates
RecentWindow(cat, eligible_listings) ==
    IF RecentListings(cat) = <<>> THEN eligible_listings ELSE RecentListings(cat)

\* the entropy_measure of every candidate, in the order of the candidates
CandidateEntropies(sel, cat, rows, eligible_listings, ch) ==
    [i \in 1..Len(eligible_listings) |->
        calculate_entropy_measure(sel, cat, rows, eligible_listings[i], ch.draws[i],
                                  ch.fault = "entropy")]

\* a variant that gives every candidate but the first the base temperature
EnergiesAtBaseTemperature(cat, eligible_listings, entropy_measures, temperature) ==
    [i \in 1..Len(eligible_listings) |->
        calculate_free_energy(cat.listings[eligible_listings[i]].score, entropy_measures[i],
                              IF i = 1 THEN temperature ELSE BaseTemperature)]

\* the (free_energy, utility, entropy_term) of every candidate, in the order of
\* the candidates
CandidateEnergies(cat, eligible_listings, entropy_measures, temperature) ==
    [i \in 1..Len(eligible_listings) |->
        calculate_free_energy(cat.listings[eligible_listings[i]].score, entropy_measures[i],
                              temperature)]

\* the try block of select_record_of_the_day once the candidates are fetched;
\* energy in the result is the per-candidate list the loop has built
SelectPipeline(sel, cat, rows, eligible_listings, ch) ==
    LET n == Len(eligible_listings)
        recent_listings == RecentWindow(cat, eligible_listings)
        upd == update_cluster_model(sel, cat, recent_listings, ch.fault = "refit")
        temperature ==
            calculate_system_temperature(cat, rows, eligible_listings, ch.fault = "temperature")
        entropy_measures == CandidateEntropies(upd.sel, cat, rows, eligible_listings, ch)
        energy == CandidateEnergies(cat, eligible_listings, entropy_measures, temperature)
        free_energies == [i \in 1..n |-> energy[i][1]]
        sampled == boltzmann_sampling(free_energies, eligible_listings, temperature,
                                      ch.pick, ch.fault = "sampling")
        selected_idx == CHOOSE i \in 1..n : eligible_listings[i] = sampled.selected_id
    IN  IF sampled.raised THEN SelectFallback(upd.sel, cat, "sampling", ch.fallbackFault)
        ELSE IF ch.fault = "breakdown"
        THEN SelectFallback(upd.sel, cat, "breakdown", ch.fallbackFault)
        ELSE [listing |-> sampled.selected_id,
              breakdown |->
                  [model_score |-> cat.listings[sampled.selected_id].score,
                   entropy_measure |-> entropy_measures[selected_idx],
                   system_temperature |-> temperature,
                   utility_term |-> energy[selected_idx][2],
                   entropy_term |-> energy[selected_idx][3],
                   free_energy |-> energy[selected_idx][1],
                   selection_probability |-> sampled.probability,
                   total_candidates |-> n,
                   cluster_count |-> IF upd.sel.cluster_centroids # <<>> THEN NClusters ELSE 0,
                   selection_method |-> "thermodynamic_boltzmann"],
              raised |-> FALSE, sel |-> upd.sel, energy |-> energy]

select_record_of_the_day(sel, cat, rows, max_candidates, ch) ==
    IF ch.fault = "candidate_query"
    THEN SelectFallback(sel, cat, "candidate_query", ch.fallbackFault)
    ELSE LET eligible_listings == EligibleListings(cat, max_candidates)
         IN  IF eligible_listings = <<>>
             THEN [listing |-> None, breakdown |-> EmptyBreakdown, raised |-> FALSE, sel |-> sel]
             ELSE IF ch.fault = "recent_query"
             THEN SelectFallback(sel, cat, "recent_query", ch.fallbackFault)
             ELSE SelectPipeline(sel, cat, rows, eligible_listings, ch)

\* what the environment may choose during one call on this catalog
Choices(cat, max_candidates) ==
    LET n == Len(EligibleListings(cat, max_candidates))
    IN  [fault : Faults, fallbackFault : BOOLEAN,
         draws : [1..n -> UniformDraws], pick : 1..Max(n, 1)]

(***************************************************************************)
(* The scraper.  inventory_file is the entry of one seller in              *)
(* user_inventories.json, scan the position of one get_inventory call for  *)
(* that seller: the pages of the seller's inventory as filter_page returns *)
(* them (lists of discogs ids), the number of the page fetched next, and   *)
(* the locals of the call.                                                 *)
(***************************************************************************)
\* the sequences without repetition of at most n elements of S
InjectiveSeqs(S, n) ==
    {s \in UNION {[1..k -> S] : k \in 0..n} :
        \A a, b \in DOMAIN s : a # b => s[a] # s[b]}

SeqRange(s) == {s[k] : k \in DOMAIN s}

\* the seller is not in the file
NoFile == [known |-> FALSE, last_inventory |-> None, record_ids |-> <<>>]

\* the seller's entry after update_user_inventory(username, record_ids) on date
update_user_inventory(data, record_ids, date) ==
    IF ~data.known
    THEN [known |-> TRUE, last_inventory |-> date, record_ids |-> record_ids]
    ELSE LET NotGiven(rid) == rid \notin SeqRange(record_ids)
             all_ids == record_ids \o SelectSeq(data.record_ids, NotGiven)
         IN  [known |-> TRUE, last_inventory |-> date,
              record_ids |-> SubSeq(all_ids, 1, Min(Len(all_ids), StoredCap))]

\* the inventories a seller may have when a scan starts, in listing order
Shops == InjectiveSeqs(1..MaxRecord, MaxRecord)

\* inventory.pages
PageCount(listing) == (Len(listing) + PerPage - 1) \div PerPage

\* filter_page(inventory.page(i))
PageOf(listing, i) == SubSeq(listing, (i - 1) * PerPage + 1, Min(i * PerPage, Len(listing)))

NoScan ==
    [pc |-> "idle", listing |-> <<>>, i |-> 0, records |-> <<>>, current_ids |-> <<>>,
     previous_ids |-> {}, wrote |-> FALSE, written |-> <<>>]

(***************************************************************************)
(* The rate limiter.  client is one discogs client: whether                 *)
(* rate_limit_client has patched it, the tracker of the patch, the calls    *)
(* that have reached the client's original methods, in order, and the call  *)
(* made last with the number of requests the tracker had counted and the    *)
(* number of calls the original methods had received before it.             *)
(***************************************************************************)
\* RateLimitTracker.__init__; sleep_time in tenths of a second
NewTracker == [windows |-> <<0, 0, 0>>, current_count |-> 0, sleep_time |-> 0]

\* RateLimitTracker.add_request; over says that the window of 15 seconds has passed
add_request(tracker, over) ==
    IF over
    THEN LET windows == Tail(tracker.windows) \o <<tracker.current_count>>
             total == windows[1] + windows[2] + windows[3] + tracker.current_count
             sleep_time == IF total > RaiseAbove THEN tracker.sleep_time + SleepStep
                           ELSE IF total < LowerBelow
                           THEN Max(0, tracker.sleep_time - SleepStep)
                           ELSE tracker.sleep_time
         IN  [windows |-> windows, current_count |-> 1, sleep_time |-> sleep_time]
    ELSE [tracker EXCEPT !.current_count = tracker.current_count + 1]

NoRequest ==
    [method |-> "none", args |-> <<>>, patched |-> FALSE, requests_before |-> 0,
     received_before |-> 0]

\* a client as authenticate_client builds it, before rate_limit_client
NewClient ==
    [patched |-> FALSE, tracker |-> NewTracker, requests |-> 0, received |-> <<>>,
     lastCall |-> NoRequest]

(***************************************************************************)
(* The views.  Each request is a process; every step below is one access   *)
(* to the database, or the selection between two accesses.  Two requests   *)
(* may be in progress at once, and all requests fall on one calendar date  *)
(* (today).  last is the response of the request that finished last;       *)
(* lastRead is the response of the last dashboard read that finished since *)
(* today's selection was last deleted.                                     *)
(***************************************************************************)
Procs == {"p1", "p2"}
\* the (desirability, novelty) a vote request carries: nothing (the defaults), or 5.0 and 1.0
VotePairs == {<<DefaultVote, DefaultVote>>, <<50, 10>>}

\* the faults injected into the selection of a request: these are the ones
\* that leave the try block
WebFaults == {NoError, "candidate_query"}

Get(breakdown, key, default) ==
    IF key \in DOMAIN breakdown THEN breakdown[key] ELSE default

\* RecordOfTheDay.objects.create(date=today, listing=..., model_score=breakdown.get(...), ...)
NewRow(id, date, listing, breakdown) ==
    [id |-> id, date |-> date, listing |-> listing,
     model_score |-> Get(breakdown, "model_score", 0),
     entropy_measure |-> Get(breakdown, "entropy_measure", 0),
     system_temperature |-> Get(breakdown, "system_temperature", CreateTempDefault),
     utility_term |-> Get(breakdown, "utility_term", 0),
     entropy_term |-> Get(breakdown, "entropy_term", 0),
     free_energy |-> Get(breakdown, "free_energy", 0),
     selection_probability |-> Get(breakdown, "selection_probability", 0),
     total_candidates |-> Get(breakdown, "total_candidates", 0),
     cluster_count |-> Get(breakdown, "cluster_count", 0),
     selection_method |-> Get(breakdown, "selection_method", "thermodynamic_boltzmann"),
     desirability_votes |-> <<>>, novelty_votes |-> <<>>,
     average_desirability |-> 0, average_novelty |-> 0]

NoRow == NewRow(None, None, None, EmptyBreakdown)

\* a variant that leaves entropy_measure out of the breakdown of a persisted row
PersistedWithoutEntropy(row) == [k \in BreakdownKeys \ {"entropy_measure"} |-> row[k]]

\* the breakdown DashboardAPIView.get builds from a persisted row
PersistedBreakdown(row) == [k \in BreakdownKeys |-> row[k]]

RowsOn(rows, date) == {r \in rows : r.date = date}

\* a variant without the unique constraint on the date
DateNeverTaken(rows, date) == FALSE

\* date = models.DateField(unique=True): an insert on a taken date raises IntegrityError
DateTaken(rows, date) == RowsOn(rows, date) # {}

NoRead == [set |-> FALSE, listing |-> None, breakdown |-> EmptyBreakdown]

NotPersisted == [set |-> FALSE, id |-> None, listing |-> None, breakdown |-> EmptyBreakdown]

\* the selection persisted for a date, as a dashboard read would serve it
Persisted(rows, date) ==
    IF DateTaken(rows, date)
    THEN LET row == CHOOSE r \in rows : r.date = date
         IN  [set |-> TRUE, id |-> row.id, listing |-> row.listing,
              breakdown |-> PersistedBreakdown(row)]
    ELSE NotPersisted

Idle ==
    [kind |-> "idle", pc |-> "done", day |-> None, listing |-> None,
     breakdown |-> EmptyBreakdown, record_id |-> None, desirability |-> 0,
     novelty |-> 0, record |-> NoRow]

NoResponse ==
    [kind |-> "idle", day |-> None, listing |-> None, breakdown |-> EmptyBreakdown,
     obj |-> None, status |-> "", insertFailed |-> FALSE, ranPipeline |-> FALSE,
     persisted |-> NotPersisted]

\* the response of request r, with what is persisted for its date when it returns
Response(r, listing, breakdown, obj, status, insertFailed, ranPipeline) ==
    [kind |-> r.kind, day |-> r.day, listing |-> listing, breakdown |-> breakdown,
     obj |-> obj, status |-> status, insertFailed |-> insertFailed,
     ranPipeline |-> ranPipeline, persisted |-> Persisted(rotd', r.day)]

\* requests that may still insert a row with a fresh id
Creators == {p \in Procs : req[p].kind \in {"read", "refresh"}}

RECURSIVE VoteCount(_)
VoteCount(rows) ==
    IF rows = {} THEN 0
    ELSE LET r == CHOOSE x \in rows : TRUE
         IN  Len(r.desirability_votes) + VoteCount(rows \ {r})

Init ==
    /\ inventory_file = NoFile /\ scan = NoScan /\ client = NewClient
    /\ catalog \in {CatFit, CatLow}
    /\ today = 1
    /\ rotd = {}
    /\ nextId = 1
    /\ req = [p \in Procs |-> Idle]
    /\ last = NoResponse
    /\ lastRead = NoRead
    /\ call = [fn |-> "none"]

\* the request of p ends with this response
Finish(p, response) ==
    /\ req' = [req EXCEPT ![p] = Idle]
    /\ last' = response
    /\ lastRead' = IF response.kind = "read"
                   THEN [set |-> TRUE, listing |-> response.listing,
                         breakdown |-> response.breakdown]
                   ELSE lastRead

\* RecordOfTheDay.objects.get(date=today) and the branch that serves the persisted row
ReadGet(p) ==
    /\ UNCHANGED <<inventory_file, scan, client, catalog, today, rotd, nextId, call>>
    /\ req[p].kind = "idle"
    /\ nextId + Cardinality(Creators) <= MaxId
    /\ LET r == [Idle EXCEPT !.kind = "read", !.day = today]
       IN  IF DateTaken(rotd, today)
           THEN LET row == CHOOSE x \in rotd : x.date = today
                IN  Finish(p, Response(r, row.listing, PersistedBreakdown(row), row.id,
                                       "ok", FALSE, FALSE))
           ELSE /\ req' = [req EXCEPT ![p] = [r EXCEPT !.pc = "select"]]
                /\ UNCHANGED <<last, lastRead>>

\* a dashboard request with force_refresh=1, or a POST to refresh_record_of_the_day_view:
\* RecordOfTheDay.objects.filter(date=today).delete()
Delete(p, kind) ==
    /\ req[p].kind = "idle"
    /\ kind = "refresh" => nextId + Cardinality(Creators) <= MaxId
    /\ rotd' = rotd \ RowsOn(rotd, today)
    /\ req' = [req EXCEPT ![p] = [Idle EXCEPT !.kind = kind, !.day = today, !.pc = "select"]]
    /\ lastRead' = NoRead
    /\ UNCHANGED <<inventory_file, scan, client, catalog, today, nextId, last, call>>

ForceDelete(p) == Delete(p, "force")

RefreshDelete(p) == Delete(p, "refresh")

\* the catalogs of these requests fit the novelty model or have no candidate, so no
\* uniform draw is consumed: one stream of draws is enumerated
WebChoices(cat) ==
    {ch \in Choices(cat, MaxCandidates) :
        ch.fault \in WebFaults /\ \A i \in DOMAIN ch.draws : ch.draws[i] = 300}

\* selector = ThermodynamicRecordSelector(); selector.select_record_of_the_day()
Select(p) ==
    /\ UNCHANGED <<inventory_file, scan, client, catalog, today, rotd, nextId, call>>
    /\ req[p].pc = "select"
    /\ \E ch \in WebChoices(catalog) :
         LET res == select_record_of_the_day(NewSelector, catalog, rotd, MaxCandidates, ch)
         IN  IF req[p].kind = "force"
             THEN Finish(p, Response(req[p], res.listing, res.breakdown, None, "ok",
                                     FALSE, TRUE))
             ELSE /\ req' = [req EXCEPT ![p].listing = res.listing,
                                        ![p].breakdown = res.breakdown,
                                        ![p].pc = "create"]
                  /\ UNCHANGED <<last, lastRead>>

\* the except RecordOfTheDay.DoesNotExist branch of DashboardAPIView.get after the selection
ReadCreate(p) ==
    /\ req[p].kind = "read" /\ req[p].pc = "create"
    /\ LET r == req[p]
       IN  IF r.listing # None /\ r.breakdown # EmptyBreakdown
           THEN IF DateTaken(rotd, r.day)
                THEN /\ UNCHANGED <<rotd, nextId>>
                     /\ Finish(p, Response(r, HighestScored(catalog),
                                           [error |-> "IntegrityError",
                                            selection_method |-> "fallback_error"],
                                           None, "ok", TRUE, TRUE))
                ELSE /\ rotd' = rotd \cup {NewRow(nextId, r.day, r.listing, r.breakdown)}
                     /\ nextId' = nextId + 1
                     /\ Finish(p, Response(r, r.listing, r.breakdown, nextId, "ok",
                                           FALSE, TRUE))
           ELSE /\ UNCHANGED <<rotd, nextId>>
                /\ Finish(p, Response(r, HighestScored(catalog),
                                      [selection_method |-> "fallback_highest_score"],
                                      None, "ok", FALSE, TRUE))
    /\ UNCHANGED <<inventory_file, scan, client, catalog, today, call>>

\* refresh_record_of_the_day_view after the selection
RefreshCreate(p) ==
    /\ req[p].kind = "refresh" /\ req[p].pc = "create"
    /\ LET r == req[p]
       IN  IF r.listing # None /\ r.breakdown # EmptyBreakdown
           THEN IF DateTaken(rotd, r.day)
                THEN /\ UNCHANGED <<rotd, nextId>>
                     /\ Finish(p, Response(r, r.listing, r.breakdown, None, "error",
                                           TRUE, TRUE))
                ELSE /\ rotd' = rotd \cup {NewRow(nextId, r.day, r.listing, r.breakdown)}
                     /\ nextId' = nextId + 1
                     /\ Finish(p, Response(r, r.listing, r.breakdown, nextId, "refreshed",
                                           FALSE, TRUE))
           ELSE /\ UNCHANGED <<rotd, nextId>>
                /\ Finish(p, Response(r, r.listing, r.breakdown, None, "failed",
                                      FALSE, TRUE))
    /\ UNCHANGED <<inventory_file, scan, client, catalog, today, call>>

\* a POST to vote_record_of_the_day_view: record = RecordOfTheDay.objects.get(id=record_id)
VoteGet(p) ==
    /\ UNCHANGED <<inventory_file, scan, client, catalog, today, rotd, nextId, call>>
    /\ req[p].kind = "idle"
    /\ VoteCount(rotd) < MaxVotes
    /\ \E id \in 1..MaxId, v \in VotePairs :
         LET r == [Idle EXCEPT !.kind = "vote", !.record_id = id, !.desirability = v[1],
                               !.novelty = v[2]]
         IN  IF \E x \in rotd : x.id = id
             THEN /\ req' = [req EXCEPT ![p] = [r EXCEPT !.pc = "vote_save",
                                   !.record = CHOOSE x \in rotd : x.id = id]]
                  /\ UNCHANGED <<last, lastRead>>
             ELSE Finish(p, Response(r, None, EmptyBreakdown, None, "error", FALSE, FALSE))

\* sum(votes) / len(votes), thousandths
Average(votes) == FDiv(FSum([i \in 1..Len(votes) |-> votes[i] * 100]), Len(votes))

\* a variant in which a vote also writes the desirability over the model score
VotedOverScore(record, desirability, novelty) ==
    LET dv == Append(record.desirability_votes, desirability)
        nv == Append(record.novelty_votes, novelty)
    IN  [record EXCEPT !.desirability_votes = dv, !.novelty_votes = nv,
                       !.average_desirability = Average(dv),
                       !.average_novelty = Average(nv),
                       !.model_score = desirability]

\* the record as vote_record_of_the_day_view changes it before record.save()
Voted(record, desirability, novelty) ==
    LET dv == Append(record.desirability_votes, desirability)
        nv == Append(record.novelty_votes, novelty)
    IN  [record EXCEPT !.desirability_votes = dv, !.novelty_votes = nv,
                       !.average_desirability = Average(dv),
                       !.average_novelty = Average(nv)]

\* record.save(): an UPDATE of the row with this id, or an INSERT when that row is gone
VoteSave(p) ==
    /\ req[p].kind = "vote" /\ req[p].pc = "vote_save"
    /\ LET record == Voted(req[p].record, req[p].desirability, req[p].novelty)
           stored == {r \in rotd : r.id = record.id}
       IN  IF stored # {}
           THEN /\ rotd' = (rotd \ stored) \cup {record}
                /\ Finish(p, Response(req[p], None, EmptyBreakdown, record.id, "submitted",
                                      FALSE, FALSE))
           ELSE IF DateTaken(rotd, record.date)
           THEN /\ UNCHANGED rotd
                /\ Finish(p, Response(req[p], None, EmptyBreakdown, None, "error",
                                      TRUE, FALSE))
           ELSE /\ rotd' = rotd \cup {record}
                /\ Finish(p, Response(req[p], None, EmptyBreakdown, record.id, "submitted",
                                      FALSE, FALSE))
    /\ UNCHANGED <<inventory_file, scan, client, catalog, today, nextId, call>>

Next ==
    \E p \in Procs :
         \/ ReadGet(p) \/ ForceDelete(p) \/ RefreshDelete(p) \/ Select(p)
         \/ ReadCreate(p) \/ RefreshCreate(p) \/ VoteGet(p) \/ VoteSave(p)

Spec == Init /\ [][Next]_vars

(***************************************************************************)
(* Calls of the selector.  A second specification: on a later date, with   *)
(* a history of past selections and their votes in the table, a process    *)
(* holding one ThermodynamicRecordSelector calls its methods.  call holds  *)
(* the selector, the method called last, its arguments and what it         *)
(* returned.                                                               *)
(***************************************************************************)
\* a vote whose value, added to itself, leaves the range of the finite floats
HugeVote == FloatMax \div 200 + 1

\* the votes, as (desirability, novelty) pairs, a past selection has received
VoteHistories ==
    {<<>>, << <<50, 50>> >>, << <<HugeVote, 50>>, <<HugeVote, 50>> >>,
     << <<-HugeVote, 10>>, <<-HugeVote, 10>> >>}

RECURSIVE ApplyVotes(_, _)
ApplyVotes(row, votes) ==
    IF votes = <<>> THEN row
    ELSE ApplyVotes(Voted(row, Head(votes)[1], Head(votes)[2]), Tail(votes))

\* the selections a view can persist on a date, given the rows of the earlier dates
Created(cat, rows) ==
    {r \in {select_record_of_the_day(NewSelector, cat, rows, MaxCandidates, ch) :
                ch \in WebChoices(cat)} :
        r.listing # None /\ r.breakdown # EmptyBreakdown}

PastRows(cat, rows, id, date) ==
    {ApplyVotes(NewRow(id, date, r.listing, r.breakdown), votes) :
        r \in Created(cat, rows), votes \in VoteHistories}

\* the table after no, one or two earlier dates
Histories(cat) ==
    {{}} \cup {{a} : a \in PastRows(cat, {}, 1, 1)}
         \cup UNION {{{a, b} : b \in PastRows(cat, {a}, 2, 2)} : a \in PastRows(cat, {}, 1, 1)}

NoCall == [fn |-> "none", sel |-> NewSelector]

InitCalls ==
    /\ inventory_file = NoFile /\ scan = NoScan /\ client = NewClient
    /\ catalog \in Catalogs
    /\ today = 3
    /\ rotd \in Histories(catalog)
    /\ nextId = 3
    /\ req = [p \in Procs |-> Idle]
    /\ last = NoResponse
    /\ lastRead = NoRead
    /\ call = NoCall

\* selector.select_record_of_the_day(max_candidates=50)
CallSelect ==
    /\ call.fn = "none"
    /\ \E ch \in Choices(catalog, MaxCandidates) :
         LET res == select_record_of_the_day(call.sel, catalog, rotd, MaxCandidates, ch)
             eligible_listings == IF ch.fault = "candidate_query" THEN <<>>
                                  ELSE EligibleListings(catalog, MaxCandidates)
             reached == eligible_listings # <<>> /\ ch.fault # "recent_query"
         IN  call' = [fn |-> "select", sel |-> res.sel, ch |-> ch,
                      listing |-> res.listing, breakdown |-> res.breakdown,
                      raised |-> res.raised,
                      eligible_listings |-> eligible_listings,
                      entropy_measures |->
                          IF reached
                          THEN CandidateEntropies(res.sel, catalog, rotd, eligible_listings, ch)
                          ELSE <<>>,
                      energy |-> IF "energy" \in DOMAIN res THEN res.energy ELSE <<>>]
    /\ UNCHANGED <<inventory_file, scan, client, catalog, today, rotd, nextId, req, last,
                   lastRead>>

\* the candidate pools _calculate_system_temperature is called with
Pools(cat) ==
    {EligibleListings(cat, MaxCandidates), <<>>,
     IdsAscending({i \in ListingIds(cat) : cat.listings[i].score <= 0}),
     IdsAscending(ListingIds(cat))}

\* selector._calculate_system_temperature(eligible_listings); uncertainty is the
\* uncertainty_factor the call has logged and raw the temperature it has
\* computed before np.clip (none when it has failed)
CallTemperature ==
    /\ call.fn = "none"
    /\ \E pool \in Pools(catalog), fault \in BOOLEAN :
         call' = [fn |-> "temperature", sel |-> call.sel, pool |-> pool, fault |-> fault,
                  uncertainty |-> IF fault THEN None
                                  ELSE uncertainty_factor(catalog, pool),
                  raw |-> IF fault THEN None ELSE RawTemperature(catalog, rotd, pool),
                  out |-> calculate_system_temperature(catalog, rotd, pool, fault)]
    /\ UNCHANGED <<inventory_file, scan, client, catalog, today, rotd, nextId, req, last,
                   lastRead>>

\* selector._calculate_entropy_measure(listing, recent_listings)
CallEntropy ==
    /\ call.fn = "none"
    /\ \E listing \in ListingIds(catalog), draw \in UniformDraws, fault \in BOOLEAN :
         call' = [fn |-> "entropy", sel |-> call.sel, listing |-> listing, fault |-> fault,
                  out |-> calculate_entropy_measure(call.sel, catalog, rotd, listing, draw,
                                                    fault)]
    /\ UNCHANGED <<inventory_file, scan, client, catalog, today, rotd, nextId, req, last,
                   lastRead>>

\* the arguments of _calculate_free_energy: a score (hundredths), an entropy in
\* [0.1, 0.9] and a temperature above 0 (thousandths)
Scores == {-10, 0, 1, 55, 95}
Entropies == {100, 500, 900}
Temperatures == {1, 100, 1000}

\* selector._calculate_free_energy(listing, entropy_measure, temperature)
CallFreeEnergy ==
    /\ call.fn = "none"
    /\ \E score \in Scores, entropy_measure \in Entropies, temperature \in Temperatures :
         call' = [fn |-> "free_energy", sel |-> call.sel, score |-> score,
                  entropy_measure |-> entropy_measure, temperature |-> temperature,
                  out |-> calculate_free_energy(score, entropy_measure, temperature)]
    /\ UNCHANGED <<inventory_file, scan, client, catalog, today, rotd, nextId, req, last,
                   lastRead>>

\* the call has returned; the process keeps its selector
CallReturn ==
    /\ call.fn # "none"
    /\ call' = [fn |-> "none", sel |-> call.sel]
    /\ UNCHANGED <<inventory_file, scan, client, catalog, today, rotd, nextId, req, last,
                   lastRead>>

NextCalls == CallSelect \/ CallTemperature \/ CallEntropy \/ CallFreeEnergy \/ CallReturn

SpecCalls == InitCalls /\ [][NextCalls]_vars

(***************************************************************************)
(* The scenario of ThermodynamicDebuggingTest.  A third specification: on  *)
(* the ten-listing catalog, with an empty RecordOfTheDay table, a process  *)
(* holding one selector calls select_record_of_the_day with the default    *)
(* max_candidates or a smaller one.                                        *)
(***************************************************************************)
\* the values of max_candidates: one below the number of candidates, and the default
CandidateCaps == {3, MaxCandidates}

\* what the environment may choose during one call: the uniform draws of one
\* call are all low or all high
ScenarioChoices(cat, max_candidates) ==
    LET n == Len(EligibleListings(cat, max_candidates))
    IN  [fault : Faults, fallbackFault : BOOLEAN,
         draws : {[i \in 1..n |-> d] : d \in UniformDraws}, pick : 1..Max(n, 1)]

InitScenario ==
    /\ inventory_file = NoFile /\ scan = NoScan /\ client = NewClient
    /\ catalog = CatTen
    /\ today = 1
    /\ rotd = {}
    /\ nextId = 1
    /\ req = [p \in Procs |-> Idle]
    /\ last = NoResponse
    /\ lastRead = NoRead
    /\ call = NoCall

\* selector.select_record_of_the_day(max_candidates)
CallSelectCapped ==
    /\ call.fn = "none"
    /\ \E max_candidates \in CandidateCaps :
       \E ch \in ScenarioChoices(catalog, max_candidates) :
         LET res == select_record_of_the_day(call.sel, catalog, rotd, max_candidates, ch)
             eligible_listings == IF ch.fault = "candidate_query" THEN <<>>
                                  ELSE EligibleListings(catalog, max_candidates)
         IN  call' = [fn |-> "select", sel |-> res.sel, ch |-> ch,
                      max_candidates |-> max_candidates,
                      listing |-> res.listing, breakdown |-> res.breakdown,
                      raised |-> res.raised,
                      eligible_listings |-> eligible_listings]
    /\ UNCHANGED <<inventory_file, scan, client, catalog, today, rotd, nextId, req, last,
                   lastRead>>

\* the windows _update_cluster_model is called with: none, 4, 5 and all 10 of the
\* listings, and the 10 in another order
UpdateWindows(cat) ==
    LET all == IdsAscending(ListingIds(cat))
    IN  {<<>>, Take(all, 4), Take(all, 5), all, OrderByScoreDesc(cat, ListingIds(cat))}

\* selector._update_cluster_model(recent_listings); before is the selector's
\* state when the call was made
CallUpdate ==
    /\ call.fn = "none"
    /\ \E window \in UpdateWindows(catalog), fault \in BOOLEAN :
         LET upd == update_cluster_model(call.sel, catalog, window, fault)
         IN  call' = [fn |-> "update", sel |-> upd.sel, before |-> call.sel,
                      window |-> window, fault |-> fault, ret |-> upd.ret,
                      refit |-> upd.refit]
    /\ UNCHANGED <<inventory_file, scan, client, catalog, today, rotd, nextId, req, last,
                   lastRead>>

\* the arguments of _boltzmann_sampling: free energies (millionths), identifiers
\* and a temperature (thousandths), the empty lists, a temperature of 0 and
\* non-finite values included
SampleEnergies == {<<>>, <<-1000000, -500000, 0>>, <<-950000>>, <<NaN, 0, 0>>}
SampleIds == {<<>>, <<1, 2, 3>>, <<4>>}
SampleTemperatures == {0, 1, 100, 500, NaN}

\* selector._boltzmann_sampling(free_energies, listing_ids, temperature)
CallSampling ==
    /\ call.fn = "none"
    /\ \E free_energies \in SampleEnergies, listing_ids \in SampleIds,
          temperature \in SampleTemperatures, fault \in BOOLEAN :
       \E pick \in 1..Max(Len(listing_ids), 1) :
         call' = [fn |-> "sampling", sel |-> call.sel, free_energies |-> free_energies,
                  listing_ids |-> listing_ids, temperature |-> temperature,
                  fault |-> fault,
                  out |-> boltzmann_sampling(free_energies, listing_ids, temperature,
                                             pick, fault)]
    /\ UNCHANGED <<inventory_file, scan, client, catalog, today, rotd, nextId, req, last,
                   lastRead>>

NextScenario == CallSelectCapped \/ CallUpdate \/ CallSampling \/ CallReturn

SpecScenario == InitScenario /\ [][NextScenario]_vars

(***************************************************************************)
(* Scans of a seller's inventory.  A specification of its own: the view    *)
(* ScraperDataToDatabaseBySellerView.post calls get_inventory and then     *)
(* process_inventory, one request at a time.                               *)
(***************************************************************************)
InitInventory ==
    /\ inventory_file = NoFile /\ scan = NoScan /\ client = NewClient
    /\ catalog = CatZero
    /\ today = 1
    /\ rotd = {}
    /\ nextId = 1
    /\ req = [p \in Procs |-> Idle]
    /\ last = NoResponse
    /\ lastRead = NoRead
    /\ call = NoCall

\* get_inventory up to its loop over the pages
ScanStart ==
    /\ scan.pc = "idle"
    /\ \E listing \in Shops :
         scan' = [NoScan EXCEPT !.pc = "pages", !.listing = listing,
                                !.i = Min(MaxPages, PageCount(listing)),
                                !.previous_ids = SeqRange(inventory_file.record_ids)]
    /\ UNCHANGED <<inventory_file, client, catalog, today, rotd, nextId, req, last,
                   lastRead, call>>

\* one pass of the loop over the pages: the fetch of page i fails, or the records
\* of the page are gone through up to the first one that was seen before
ScanPage ==
    /\ scan.pc = "pages" /\ scan.i > 0
    /\ \E fault \in BOOLEAN :
         IF fault
         THEN /\ scan' = [scan EXCEPT !.i = scan.i - 1]
              /\ UNCHANGED inventory_file
         ELSE LET page_records == PageOf(scan.listing, scan.i)
                  seen == {k \in DOMAIN page_records :
                              page_records[k] \in scan.previous_ids}
              IN  IF seen = {}
                  THEN /\ scan' = [scan EXCEPT !.i = scan.i - 1,
                                       !.current_ids = scan.current_ids \o page_records,
                                       !.records = scan.records \o page_records]
                       /\ UNCHANGED inventory_file
                  ELSE LET first == CHOOSE k \in seen : \A j \in seen : k <= j
                           current_ids == scan.current_ids
                                              \o SubSeq(page_records, 1, first - 1)
                       IN  /\ inventory_file' =
                                  update_user_inventory(inventory_file, current_ids, today)
                           /\ scan' = [scan EXCEPT !.pc = "returned",
                                                    !.current_ids = current_ids,
                                                    !.wrote = TRUE,
                                                    !.written = current_ids]
    /\ UNCHANGED <<client, catalog, today, rotd, nextId, req, last, lastRead, call>>

\* the loop has gone through every page: return records
ScanFinish ==
    /\ scan.pc = "pages" /\ scan.i = 0
    /\ scan' = [scan EXCEPT !.pc = "returned"]
    /\ UNCHANGED <<inventory_file, client, catalog, today, rotd, nextId, req, last,
                   lastRead, call>>

\* process_inventory(seller_name, inventory, exchange_rates) on what the scan returned
ScanProcess ==
    /\ scan.pc = "returned"
    /\ inventory_file' = IF scan.records = <<>> THEN inventory_file
                 ELSE update_user_inventory(inventory_file, scan.records, today)
    /\ scan' = NoScan
    /\ UNCHANGED <<client, catalog, today, rotd, nextId, req, last, lastRead, call>>

NextInventory == ScanStart \/ ScanPage \/ ScanFinish \/ ScanProcess

SpecInventory == InitInventory /\ [][NextInventory]_vars

(***************************************************************************)
(* Calls on a client.  A specification of its own: a client is built,      *)
(* rate_limit_client patches it, and _get and _post are called on it.      *)
(***************************************************************************)
\* the positional arguments of a call
CallArgs == {<<>>, <<"/users/seller/inventory">>, <<"/marketplace/listings">>}

InitClient ==
    /\ inventory_file = NoFile /\ scan = NoScan /\ client = NewClient
    /\ catalog = CatZero
    /\ today = 1
    /\ rotd = {}
    /\ nextId = 1
    /\ req = [p \in Procs |-> Idle]
    /\ last = NoResponse
    /\ lastRead = NoRead
    /\ call = NoCall

\* rate_limit_client(client)
ClientPatch ==
    /\ ~client.patched
    /\ client' = [client EXCEPT !.patched = TRUE, !.tracker = NewTracker]
    /\ UNCHANGED <<inventory_file, scan, catalog, today, rotd, nextId, req, last,
                   lastRead, call>>

\* the call of method reaches the original method target of the client
Forwarded(method, target, args, over) ==
    client' =
        [client EXCEPT
            !.tracker = IF client.patched THEN add_request(client.tracker, over)
                        ELSE client.tracker,
            !.requests = IF client.patched THEN client.requests + 1 ELSE client.requests,
            !.received = Append(client.received, [method |-> target, args |-> args]),
            !.lastCall = [method |-> method, args |-> args, patched |-> client.patched,
                          requests_before |-> client.requests,
                          received_before |-> Len(client.received)]]

\* client._get(*args): rate_limited_get on a patched client
ClientGet ==
    /\ Len(client.received) < MaxCalls
    /\ \E args \in CallArgs, over \in BOOLEAN : Forwarded("get", "get", args, over)
    /\ UNCHANGED <<inventory_file, scan, catalog, today, rotd, nextId, req, last,
                   lastRead, call>>

\* the original method rate_limited_post forwards to
PostTarget(patched) == IF patched THEN "get" ELSE "post"

\* client._post(*args): rate_limited_post on a patched client
ClientPost ==
    /\ Len(client.received) < MaxCalls
    /\ \E args \in CallArgs, over \in BOOLEAN :
         Forwarded("post", PostTarget(client.patched), args, over)
    /\ UNCHANGED <<inventory_file, scan, catalog, today, rotd, nextId, req, last,
                   lastRead, call>>

NextClient == ClientPatch \/ ClientGet \/ ClientPost

SpecClient == InitClient /\ [][NextClient]_vars

(***************************************************************************)
(* Properties of the requests (specification Spec).                        *)
(***************************************************************************)

\* some listing is scored above 0.5
HasEligible == \E i \in ListingIds(catalog) : catalog.listings[i].score > EligibleScore

\* C1: in every reachable state there is at most one persisted RecordOfTheDay
\* per calendar date, whatever the interleaving of reads, refreshes and votes.
C1_OnePerDate ==
    \A r1 \in rotd : \A r2 \in rotd : r1.date = r2.date => r1 = r2

\* C1 witness: a dashboard read lost the race to create today's selection and
\* exactly one row is persisted.
C1_Witness ==
    /\ last.kind = "read" /\ last.insertFailed
    /\ Cardinality(RowsOn(rotd, today)) = 1

\* C2: a dashboard read whose insert fails on the date constraint
\* returns the persisted selection (same listing, same breakdown), not an
\* error breakdown.
C2_LoserReturnsPersisted ==
    (last.kind = "read" /\ last.insertFailed) =>
        /\ last.persisted.set
        /\ last.listing = last.persisted.listing
        /\ last.breakdown = last.persisted.breakdown
        /\ "error" \notin DOMAIN last.breakdown

\* C3: a dashboard read that finishes after another one, with no
\* refresh between them, returns the same listing and the same breakdown and
\* does not run the pipeline.
C3_ReadsIdempotent ==
    [][(last'.kind = "read" /\ last' # last /\ lastRead.set) =>
          /\ last'.listing = lastRead.listing
          /\ last'.breakdown = lastRead.breakdown
          /\ ~last'.ranPipeline]_vars

\* C4: when an explicit refresh (the POST view or a dashboard read
\* with force_refresh=1) returns on a date with an eligible listing, the
\* pipeline has run and a persisted selection for today exists.
C4_RefreshPersists ==
    (last.kind \in {"refresh", "force"} /\ EligibleListings(catalog, MaxCandidates) # <<>>) =>
        (last.ranPipeline /\ last.persisted.set)

InEntropyRange(x) == EntropyLo <= x /\ x <= EntropyHi

\* C8: the entropy_measure of every persisted selection, and the one in the
\* breakdown a request returns, lie in [0.1, 0.9].
C8_EntropyInRange ==
    /\ \A r \in rotd : InEntropyRange(r.entropy_measure)
    /\ "entropy_measure" \in DOMAIN last.breakdown =>
          InEntropyRange(last.breakdown.entropy_measure)

\* a breakdown of a selection that is not a degraded one: no 'error' and no
\* fallback tag
Successful(breakdown) ==
    /\ "error" \notin DOMAIN breakdown
    /\ "selection_method" \in DOMAIN breakdown =>
          breakdown.selection_method
              \notin {"fallback", "fallback_highest_score", "fallback_error"}

ThermodynamicKeys == {"entropy_measure", "system_temperature"}

\* C15: the breakdown of every successful selection (a listing, no 'error', no
\* fallback tag) has the keys entropy_measure and system_temperature: the one
\* select_record_of_the_day has returned to a request, the one a dashboard read
\* returns after creating today's selection, and the one a dashboard read
\* returns from the persisted selection.
C15_SuccessHasKeys ==
    /\ \A p \in Procs :
          (req[p].pc = "create" /\ req[p].listing # None /\ Successful(req[p].breakdown)) =>
              ThermodynamicKeys \subseteq DOMAIN req[p].breakdown
    /\ (last.kind \in {"read", "force"} /\ last.listing # None /\ Successful(last.breakdown)) =>
          ThermodynamicKeys \subseteq DOMAIN last.breakdown

\* C15 witness: a dashboard read has returned the persisted selection, which an
\* earlier request created, with both keys in its breakdown.
C15_Witness ==
    /\ last.kind = "read" /\ ~last.ranPipeline /\ last.listing # None
    /\ last.persisted.set /\ last.obj = last.persisted.id
    /\ Successful(last.breakdown)
    /\ ThermodynamicKeys \subseteq DOMAIN last.breakdown

\* the votes of row r are still in the table rows, at the same positions of
\* the same selection
VotesKept(r, rows) ==
    \A i \in 1..Len(r.desirability_votes) :
        \E q \in rows :
            /\ q.id = r.id
            /\ Len(q.desirability_votes) >= i /\ Len(q.novelty_votes) >= i
            /\ q.desirability_votes[i] = r.desirability_votes[i]
            /\ q.novelty_votes[i] = r.novelty_votes[i]

\* C16: no step of a vote, a dashboard read or a refresh removes or overwrites
\* a vote that is stored: every stored vote is still stored after the step.
C16_VotesAppendOnly ==
    [][\A r \in rotd : VotesKept(r, rotd')]_vars

\* C17: when a dashboard read without force_refresh that found no persisted
\* selection returns, on a catalog with a listing scored above 0.5, one
\* RecordOfTheDay is persisted for today, its listing is the listing of the
\* response and its breakdown fields are the breakdown of the response.
C17_ReadPersistsWhatItReturns ==
    (last.kind = "read" /\ last.ranPipeline /\ HasEligible) =>
        /\ Cardinality(RowsOn(rotd, last.day)) = 1
        /\ last.persisted.set
        /\ last.persisted.listing = last.listing
        /\ last.persisted.breakdown = last.breakdown

\* row q holds the selection of row r: the same listing and the same breakdown fields
SameSelection(q, r) ==
    /\ q.id = r.id /\ q.date = r.date /\ q.listing = r.listing
    /\ \A k \in BreakdownKeys : q[k] = r[k]

\* the step starts a refresh: a POST to the refresh view or a read with force_refresh=1
RefreshStarts ==
    \E p \in Procs : req[p].kind = "idle" /\ req'[p].kind \in {"refresh", "force"}

\* C23: a persisted RecordOfTheDay keeps its listing and its ten breakdown fields
\* through every step of a dashboard read or a vote, and it leaves the table only
\* in a step that starts a refresh.
C23_SelectionImmutable ==
    [][\A r \in rotd :
          \/ \E q \in rotd' : SameSelection(q, r)
          \/ (\A q \in rotd' : q.id # r.id) /\ RefreshStarts]_vars

\* a vote was stored on a persisted selection and a later dashboard read served
\* the selection with the breakdown it was persisted with
C23_Witness ==
    /\ last.kind = "read" /\ ~last.ranPipeline /\ last.persisted.set
    /\ \E r \in rotd :
         /\ r.id = last.obj /\ Len(r.desirability_votes) >= 1
         /\ r.selection_method = "thermodynamic_boltzmann"
         /\ last.breakdown = [k \in BreakdownKeys |-> r[k]]
         /\ last.listing = r.listing

\* a rating of 1 to 5, in tenths
IsRating(v) == v >= 10 /\ v <= 50

\* C24: every value stored in desirability_votes and novelty_votes of a persisted
\* selection is a rating from 1 to 5, whatever the vote requests carried.
C24_StoredVotesAreRatings ==
    \A r \in rotd :
        /\ \A i \in 1..Len(r.desirability_votes) : IsRating(r.desirability_votes[i])
        /\ \A i \in 1..Len(r.novelty_votes) : IsRating(r.novelty_votes[i])

\* the step is the record.save() of a vote request of p that reports success
VoteSubmitted(p) ==
    /\ req[p].kind = "vote" /\ req[p].pc = "vote_save"
    /\ req'[p].kind = "idle" /\ last'.status = "submitted"

\* C25: a vote request that is saved adds its vote to the votes stored at that
\* moment, also when another vote request for the same record was saved after
\* this one had read the record: the stored lists grow by one with each saved
\* vote, so by two for two concurrent votes, and the averages are those of the
\* grown lists.
C25_ConcurrentVotesBothStored ==
    [][\A p \in Procs : VoteSubmitted(p) =>
          \A r \in rotd : r.id = req[p].record.id =>
              \E q \in rotd' :
                  /\ q.id = r.id /\ VotesKept(r, rotd')
                  /\ Len(q.desirability_votes) = Len(r.desirability_votes) + 1
                  /\ Len(q.novelty_votes) = Len(r.novelty_votes) + 1
                  /\ q.desirability_votes[Len(q.desirability_votes)] = req[p].desirability
                  /\ q.novelty_votes[Len(q.novelty_votes)] = req[p].novelty
                  /\ q.average_desirability = Average(q.desirability_votes)
                  /\ q.average_novelty = Average(q.novelty_votes)]_vars

\* C28: every persisted RecordOfTheDay holds a selection of the Boltzmann path:
\* its selection_method is the one of that path and it was drawn from at least
\* one candidate; no degraded result is persisted with the create-time defaults.
C28_PersistedAreBoltzmann ==
    \A r \in rotd :
        /\ r.selection_method = "thermodynamic_boltzmann"
        /\ r.total_candidates >= 1

(***************************************************************************)
(* Properties of the calls (specification SpecCalls).                      *)
(***************************************************************************)
HasPositive == \E i \in ListingIds(catalog) : catalog.listings[i].score > 0

\* the stage that raises is one whose exception reaches the except branch of
\* select_record_of_the_day
Escapes ==
    \/ call.ch.fault = "candidate_query"
    \/ call.ch.fault \in {"recent_query", "breakdown"} /\ HasEligible

IsHighestPositive(listing) ==
    /\ listing \in ListingIds(catalog)
    /\ catalog.listings[listing].score > 0
    /\ \A j \in ListingIds(catalog) :
          catalog.listings[j].score <= catalog.listings[listing].score

\* C5: select_record_of_the_day never lets an exception out, whichever stage
\* fails (the fallback query included): it returns a listing with a breakdown,
\* or None with a breakdown that is empty or carries 'error'.
C5_NeverPropagates ==
    call.fn = "select" =>
        /\ ~call.raised
        /\ \/ call.listing \in ListingIds(catalog) /\ call.breakdown # EmptyBreakdown
           \/ call.listing = None /\ call.breakdown = EmptyBreakdown
           \/ call.listing = None /\ "error" \in DOMAIN call.breakdown

\* C5 witness: the candidate query and then the fallback query have raised,
\* and the call has returned None with the error.
C5_Witness ==
    /\ call.fn = "select" /\ call.ch.fault = "candidate_query" /\ call.ch.fallbackFault
    /\ HasPositive
    /\ call.listing = None /\ call.breakdown = [error |-> "candidate_query"]

\* C6 (as claimed): when a stage raises, or there is no eligible candidate, the
\* result is the highest-scored listing with score > 0 and a breakdown with
\* 'error' and selection_method 'fallback'.
C6_AnyFailureFallsBack ==
    ( /\ call.fn = "select" /\ ~call.ch.fallbackFault /\ HasPositive
      /\ \/ call.ch.fault = NoError /\ ~HasEligible
         \/ call.ch.fault \in {"candidate_query", "recent_query", "temperature", "breakdown"}
              /\ HasEligible )
    => /\ IsHighestPositive(call.listing)
       /\ "error" \in DOMAIN call.breakdown
       /\ "selection_method" \in DOMAIN call.breakdown
       /\ call.breakdown.selection_method = "fallback"

\* C6 (amended): when the candidate query, the recent-window query or the
\* breakdown assembly raises, the result is the highest-scored listing with
\* score > 0 (None when there is none) with exactly 'error' and
\* selection_method 'fallback', or (None, {'error'}) when the fallback query
\* raises too; a failure in the refit, the temperature, the entropy or the
\* sampling is absorbed and the selection is a thermodynamic_boltzmann one
\* without 'error'; with no eligible candidate the result is (None, {}).
C6_EscapingFailureFallsBack ==
    call.fn = "select" =>
        /\ (Escapes /\ ~call.ch.fallbackFault) =>
              /\ call.breakdown = [error |-> call.ch.fault, selection_method |-> "fallback"]
              /\ IF HasPositive THEN IsHighestPositive(call.listing) ELSE call.listing = None
        /\ (Escapes /\ call.ch.fallbackFault) =>
              (call.listing = None /\ call.breakdown = [error |-> call.ch.fault])
        /\ (~Escapes /\ ~HasEligible) =>
              (call.listing = None /\ call.breakdown = EmptyBreakdown)
        /\ (~Escapes /\ HasEligible) =>
              /\ call.listing \in ListingIds(catalog)
              /\ catalog.listings[call.listing].score > EligibleScore
              /\ DOMAIN call.breakdown = BreakdownKeys
              /\ call.breakdown.selection_method = "thermodynamic_boltzmann"

\* C6 witness: the breakdown assembly has raised on a catalog with candidates
\* and the highest-scored listing has come back tagged 'fallback'.
C6_Witness ==
    /\ call.fn = "select" /\ call.ch.fault = "breakdown" /\ ~call.ch.fallbackFault
    /\ HasEligible
    /\ call.listing = 1 /\ catalog = CatFit
    /\ call.breakdown = [error |-> "breakdown", selection_method |-> "fallback"]

\* C7 (as claimed): when no stage raises and some listing has score > 0,
\* select_record_of_the_day returns a listing.
C7_NoneOnlyWithoutPositive ==
    (call.fn = "select" /\ call.ch.fault = NoError /\ HasPositive) => call.listing # None

\* C7 (amended): select_record_of_the_day returns None exactly when no failure
\* reaches its except branch and no listing has score > 0.5, or a failure
\* reaches it and the fallback query raises or no listing has score > 0.
C7_NoneExactly ==
    call.fn = "select" =>
        (call.listing = None <=>
            \/ ~Escapes /\ ~HasEligible
            \/ Escapes /\ (call.ch.fallbackFault \/ ~HasPositive))

\* C7 witness: every listing is scored above 0 and at most 0.5, nothing has
\* raised, and the call has returned (None, {}).
C7_Witness ==
    /\ call.fn = "select" /\ call.ch.fault = NoError
    /\ HasPositive /\ ~HasEligible
    /\ call.listing = None /\ call.breakdown = EmptyBreakdown

InTemperatureRange(x) == TempLo <= x /\ x <= TempHi

\* C9: _calculate_system_temperature returns a value in [0.1, 1.0] for every
\* pool and every history of selections and votes, and the system_temperature
\* of every breakdown is in that range.
C9_TemperatureInRange ==
    /\ call.fn = "temperature" => InTemperatureRange(call.out)
    /\ (call.fn = "select" /\ "system_temperature" \in DOMAIN call.breakdown) =>
          InTemperatureRange(call.breakdown.system_temperature)

\* C10: for a score s, an entropy e in [0.1, 0.9] and a temperature T > 0,
\* _calculate_free_energy returns (utility - T*e, utility, T*e) with utility
\* -s when s > 0 and -1.0 otherwise.
C10_FreeEnergyTriple ==
    call.fn = "free_energy" =>
        LET utility == IF call.score > 0 THEN -(call.score * 10000) ELSE -1000000
            entropy_term == call.temperature * call.entropy_measure
        IN  call.out = <<utility - entropy_term, utility, entropy_term>>

\* C10 witness: the call with a score of 0 has returned the utility -1.0.
C10_Witness ==
    /\ call.fn = "free_energy" /\ call.score = 0
    /\ call.entropy_measure = 900 /\ call.temperature = 1000
    /\ call.out = <<-1900000, -1000000, 900000>>

\* the call has reached the breakdown: no failure has left the try block and
\* there was a candidate
Completed == call.fn = "select" /\ ~Escapes /\ HasEligible

\* C19: in a selection that completes, the system_temperature of the breakdown
\* is what _calculate_system_temperature returns for the whole candidate list,
\* the free energy, utility and entropy term of every candidate are computed
\* with that value, and the sampling step has worked with that value.
C19_OneTemperature ==
    Completed =>
        LET pool == call.eligible_listings
            temperature == call.breakdown.system_temperature
            free_energies == [i \in 1..Len(pool) |-> call.energy[i][1]]
            sampled == boltzmann_sampling(free_energies, pool, temperature, call.ch.pick,
                                          call.ch.fault = "sampling")
        IN  /\ temperature = calculate_system_temperature(catalog, rotd, pool,
                                                          call.ch.fault = "temperature")
            /\ Len(call.energy) = Len(pool)
            /\ \A i \in 1..Len(pool) :
                  call.energy[i] = calculate_free_energy(catalog.listings[pool[i]].score,
                                                         call.entropy_measures[i],
                                                         temperature)
            /\ call.listing = sampled.selected_id
            /\ call.breakdown.selection_probability = sampled.probability

\* C19 witness: with two candidates and a history that has moved the
\* temperature away from its base and default values, the selection has
\* completed with the second candidate.
C19_Witness ==
    /\ Completed /\ call.ch.fault = NoError
    /\ Len(call.eligible_listings) = 2 /\ call.listing = call.eligible_listings[2]
    /\ rotd # {}
    /\ call.breakdown.system_temperature \notin {BaseTemperature, TempDefault, TempLo, TempHi}
    /\ call.breakdown.entropy_term = call.energy[2][3]

\* the positive scores of the pool of a call, in the order of the pool
PositiveScoresOfPool ==
    LET IsScored(i) == catalog.listings[i].score > 0
        scored == SelectSeq(call.pool, IsScored)
    IN  [i \in 1..Len(scored) |-> catalog.listings[scored[i]].score]

\* x (thousandths) is min(std / mean, 1.0) of the scores, to within a hundredth;
\* std is the population standard deviation, as np.std computes it
IsCappedCoefficientOfVariation(x, scores) ==
    LET n == Len(scores)
        s1 == SumSeq(scores)
        s2 == SumSeq([i \in 1..n |-> scores[i] * scores[i]])
        var == n * s2 - s1 * s1
        lo == (Max(x - 10, 0) * s1) \div 100
        hi == ((x + 10) * s1) \div 100 + 1
    IN  /\ 0 <= x /\ x <= 1000
        /\ lo * lo <= var * 100
        /\ x < 1000 => var * 100 <= hi * hi

\* C20: the uncertainty factor of _calculate_system_temperature is the
\* coefficient of variation (std/mean, capped at 1) of the positive scores of
\* the pool, and 0 when the pool has no positive score (the empty pool
\* included).
C20_UncertaintyIsCoV ==
    (call.fn = "temperature" /\ ~call.fault) =>
        IF PositiveScoresOfPool = <<>>
        THEN call.uncertainty = 0
        ELSE IsCappedCoefficientOfVariation(call.uncertainty, PositiveScoresOfPool)

\* C20, the part that holds: with a positive score in the pool the uncertainty
\* factor is the coefficient of variation of the positive scores, capped at 1.
C20_CoVOfPositiveScores ==
    (call.fn = "temperature" /\ ~call.fault /\ PositiveScoresOfPool # <<>>) =>
        IsCappedCoefficientOfVariation(call.uncertainty, PositiveScoresOfPool)

\* the fraction of the pool of a call that is not evaluated, thousandths
UnevaluatedFractionOfPool ==
    LET IsUnevaluated(i) == ~catalog.listings[i].evaluated
    IN  (Len(SelectSeq(call.pool, IsUnevaluated)) * 1000) \div Max(Len(call.pool), 1)

\* the mean of average_desirability over the 10 most recent selections, 0 without any
MeanPastDesirability ==
    LET past == FirstByDate(rotd, PastRecordsWindow)
    IN  FDiv(SumOver(past, "average_desirability"), Max(Cardinality(past), 1))

\* C21: the temperature before clipping is (0.5 + 0.3 * unevaluated_fraction
\* + 0.2 * uncertainty_factor) * (1 + 0.2 * A), with A the average of
\* average_desirability over at most the 10 most recent persisted selections
\* (0 when there are none).
C21_MultiplierUsesAverage ==
    (call.fn = "temperature" /\ ~call.fault) =>
        call.raw = FMul(BaseTemperature + (300 * UnevaluatedFractionOfPool) \div 1000
                                        + (200 * call.uncertainty) \div 1000,
                        FAdd(1000, FScale(MeanPastDesirability, 200, 1000)))

\* C21, what the code computes: the same with A the sum of average_desirability
\* over those selections.
C21_MultiplierUsesSum ==
    (call.fn = "temperature" /\ ~call.fault) =>
        call.raw = FMul(BaseTemperature + (300 * UnevaluatedFractionOfPool) \div 1000
                                        + (200 * call.uncertainty) \div 1000,
                        FAdd(1000, FScale(SumOver(FirstByDate(rotd, PastRecordsWindow),
                                                  "average_desirability"), 200, 1000)))

\* the exact sum of a list of votes, tenths
RECURSIVE VoteTotal(_)
VoteTotal(votes) == IF votes = <<>> THEN 0 ELSE Head(votes) + VoteTotal(Tail(votes))

\* average (thousandths) is the mean of the non-empty list votes (tenths), to a thousandth
IsMeanOf(average, votes) ==
    /\ Finite(average)
    /\ average * Len(votes) <= VoteTotal(votes) * 100 + Len(votes)
    /\ average * Len(votes) >= VoteTotal(votes) * 100 - Len(votes)

\* the lists of row r have one length and its averages are their means, or 0.0
\* without votes
VotesAveraged(r) ==
    /\ Len(r.desirability_votes) = Len(r.novelty_votes)
    /\ IF r.desirability_votes = <<>>
       THEN r.average_desirability = 0 /\ r.average_novelty = 0
       ELSE /\ IsMeanOf(r.average_desirability, r.desirability_votes)
            /\ IsMeanOf(r.average_novelty, r.novelty_votes)

\* C26: on every selection that has received its votes one after the other,
\* desirability_votes and novelty_votes have the same length, average_desirability
\* is the mean of desirability_votes and average_novelty the mean of novelty_votes;
\* a selection without votes has both averages 0.0.
C26_AveragesAreMeans ==
    \A r \in rotd : VotesAveraged(r)

\* the same for the selections whose sums of votes stay finite
C26_FiniteSumsAveraged ==
    \A r \in rotd :
        (Finite(r.average_desirability) /\ Finite(r.average_novelty)) => VotesAveraged(r)

(***************************************************************************)
(* Properties of the scenario (specification SpecScenario).                *)
(***************************************************************************)
\* the listings scored above 0.5
AboveThreshold == {i \in ListingIds(catalog) : catalog.listings[i].score > EligibleScore}

\* C11 (as claimed): on the ten-listing catalog, select_record_of_the_day()
\* returns one of the ten listings with a breakdown whose total_candidates
\* is 10.
C11_TenCandidates ==
    (call.fn = "select" /\ call.max_candidates = MaxCandidates /\ call.ch.fault = NoError) =>
        /\ call.listing \in ListingIds(catalog)
        /\ "total_candidates" \in DOMAIN call.breakdown
        /\ call.breakdown.total_candidates = 10

\* C11 (amended): on the ten-listing catalog, when no failure reaches the
\* except branch, select_record_of_the_day() returns one of the nine listings
\* scored above 0.5 (the listing scored 0.3 is never a candidate) with a
\* breakdown whose total_candidates is 9.
C11_NineCandidates ==
    (call.fn = "select" /\ call.max_candidates = MaxCandidates /\ ~Escapes) =>
        /\ Cardinality(ListingIds(catalog)) = 10
        /\ Cardinality(AboveThreshold) = 9
        /\ call.listing \in AboveThreshold
        /\ "total_candidates" \in DOMAIN call.breakdown
        /\ call.breakdown.total_candidates = 9

\* C11 witness: with nothing failing, the call has returned the listing scored
\* 0.95 and counted 9 candidates.
C11_Witness ==
    /\ call.fn = "select" /\ call.max_candidates = MaxCandidates /\ call.ch.fault = NoError
    /\ call.listing = 4 /\ catalog.listings[4].score = 95
    /\ call.breakdown.total_candidates = 9

\* C12: _update_cluster_model called with fewer than 5 listings returns False
\* and leaves the selector (cluster_centroids, recent_listings_cache,
\* feature_cache, the fitted vectorizer, scaler and PCA) as it was, whether or
\* not it had centroids.
C12_ShortWindowLeavesModel ==
    (call.fn = "update" /\ Len(call.window) < 5) =>
        /\ call.ret = FALSE
        /\ ~call.refit
        /\ call.sel = call.before

\* C12 witness: a selector with centroids has been called with 4 listings and
\* has returned False, its state unchanged.
C12_Witness ==
    /\ call.fn = "update" /\ Len(call.window) = 4
    /\ call.before.cluster_centroids # <<>>
    /\ call.ret = FALSE /\ call.sel = call.before

\* C13: every call of _update_cluster_model with 5 listings or more leaves the
\* window in recent_listings_cache; a call whose window is the one the
\* previous such call left there fits nothing, returns True and leaves the
\* selector as it was; a call with another window of 5 listings or more fits
\* the vectorizer and the scaler on it and, when it returns True, the
\* centroids too.
C13_SameWindowSkipsRefit ==
    (call.fn = "update" /\ Len(call.window) >= 5) =>
        /\ call.sel.recent_listings_cache = call.window
        /\ call.before.recent_listings_cache = call.window =>
              (~call.refit /\ call.ret = TRUE /\ call.sel = call.before)
        /\ call.before.recent_listings_cache # call.window =>
              /\ call.refit
              /\ call.sel.vectorizer = call.window /\ call.sel.scaler = call.window
              /\ call.ret = TRUE => call.sel.cluster_centroids = call.window

\* C13 witness: a selector fitted on the 10 listings has been called with the
\* same 10 listings again and has fitted nothing.
C13_Witness ==
    /\ call.fn = "update" /\ Len(call.window) = 10
    /\ call.before.recent_listings_cache = call.window
    /\ call.before.cluster_centroids = call.window
    /\ ~call.refit /\ call.ret = TRUE /\ call.sel = call.before

\* C13 witness of the other case: a selector fitted on one window has been
\* called with another window of 10 listings and its centroids are now those
\* of the new window.
C13_RefitWitness ==
    /\ call.fn = "update" /\ Len(call.window) = 10
    /\ call.before.cluster_centroids # <<>>
    /\ call.before.cluster_centroids # call.window
    /\ call.refit /\ call.ret = TRUE /\ call.sel.cluster_centroids = call.window

\* the try block of _boltzmann_sampling cannot return: the temperature is 0 or
\* not finite, a weight or every probability is not finite, or the lists are
\* empty or of different lengths
Degenerate ==
    \/ call.fault
    \/ call.temperature = 0 \/ ~Finite(call.temperature)
    \/ call.listing_ids = <<>>
    \/ Len(call.free_energies) # Len(call.listing_ids)
    \/ NonFiniteWeights(call.free_energies, call.temperature)

\* C14: _boltzmann_sampling never raises; in every degenerate case (the
\* temperature at or near 0, weights that are not finite, empty free_energies
\* and listing_ids) it returns one of listing_ids with the probability
\* 1/len(listing_ids).
C14_SamplingNeverRaises ==
    call.fn = "sampling" =>
        /\ ~call.out.raised
        /\ Degenerate =>
              /\ \E i \in DOMAIN call.listing_ids : call.out.selected_id = call.listing_ids[i]
              /\ call.out.probability = 1000 \div Len(call.listing_ids)

\* C14, the cases that do hold: with at least one identifier the call returns
\* one of them, and in the degenerate cases its probability is 1/len(listing_ids).
C14_FallsBackOnIdentifiers ==
    (call.fn = "sampling" /\ call.listing_ids # <<>>) =>
        /\ ~call.out.raised
        /\ \E i \in DOMAIN call.listing_ids : call.out.selected_id = call.listing_ids[i]
        /\ Degenerate => call.out.probability = 1000 \div Len(call.listing_ids)

PositiveTemperatureCall ==
    /\ call.fn = "sampling" /\ ~call.fault
    /\ call.temperature > 0 /\ Finite(call.temperature)
    /\ call.listing_ids # <<>> /\ Len(call.free_energies) = Len(call.listing_ids)
    /\ \A i \in DOMAIN call.free_energies : Finite(call.free_energies[i])

\* p holds probabilities of weights that fall as the free energy rises, they
\* sum to 1 (to within a thousandth each), and the call has returned one of the
\* identifiers with that identifier's own probability in p
BoltzmannOutcome(p) ==
    LET n == Len(call.listing_ids)
        F == call.free_energies
    IN  /\ Len(p) = n
        /\ 1000 - n <= SumSeq(p) /\ SumSeq(p) <= 1000
        /\ \A i \in 1..n : \A j \in 1..n :
              /\ F[i] < F[j] => p[i] >= p[j]
              /\ (F[j] - F[i] >= 1000 * call.temperature /\ p[j] > 0) => p[i] > p[j]
        /\ \E k \in 1..n : /\ call.out.selected_id = call.listing_ids[k]
                            /\ call.out.probability = p[k]

\* exp(-F/T) normalised to sum 1, thousandths, in exact arithmetic: a weight
\* more than e^20 times smaller than the largest is under a thousandth of it
NormalisedWeights(F, T) ==
    LET n == Len(F)
        xs == [i \in 1..n |-> (-F[i]) \div T]
        xmax == CHOOSE x \in {xs[i] : i \in 1..n} : \A j \in 1..n : xs[j] <= x
        ws == [i \in 1..n |-> IF xmax - xs[i] > 20000 THEN 0 ELSE ExpNeg(xmax - xs[i])]
    IN  [i \in 1..n |-> (ws[i] * 1000) \div SumSeq(ws)]

C27_TrueMeansFittedOnWindow ==
    (call.fn = "update" /\ call.ret) =>
        /\ call.sel.cluster_centroids # <<>>
        /\ call.sel.cluster_centroids = call.window

\* the same for the calls that refit the model themselves
C27_RefitFitsWindow ==
    (call.fn = "update" /\ call.ret /\ call.refit) =>
        call.sel.cluster_centroids = call.window

(***************************************************************************)
(* Properties of the scans (specification SpecInventory).                  *)
(***************************************************************************)
\* C29: when get_inventory has stopped at a record seen before, every id it has
\* passed to update_user_inventory as current_ids is the id of a record in the
\* list it returns.
C29_MarkedSeenAreReturned ==
    (scan.pc = "returned" /\ scan.wrote) =>
        SeqRange(scan.written) \subseteq SeqRange(scan.records)

\* the converse: every record the stopped scan returns was passed as seen
C29_ReturnedAreMarkedSeen ==
    (scan.pc = "returned" /\ scan.wrote) =>
        SeqRange(scan.records) \subseteq SeqRange(scan.written)

(***************************************************************************)
(* Properties of the client (specification SpecClient).                    *)
(***************************************************************************)
\* the call made last on the patched client was counted once by the tracker and
\* reached the original method of its own name once, with its arguments
CountedAndForwarded ==
    /\ client.requests = client.lastCall.requests_before + 1
    /\ Len(client.received) = client.lastCall.received_before + 1
    /\ client.received[Len(client.received)] =
           [method |-> client.lastCall.method, args |-> client.lastCall.args]

\* C30: on a patched client every call of _post records one request in the
\* tracker and is forwarded once to the original _post with the same arguments,
\* and every call of _get likewise to the original _get.
C30_CallsCountedAndForwarded ==
    (client.lastCall.method \in {"get", "post"} /\ client.lastCall.patched) =>
        CountedAndForwarded

\* the half of the claim about _get
C30_GetCountedAndForwarded ==
    (client.lastCall.method = "get" /\ client.lastCall.patched) => CountedAndForwarded

====
